---- MODULE Spec2Model ----
(***************************************************************************)
(* A model of trod/model_/core.py: the metaclass _ModelMeta that turns a   *)
(* class body into table metadata, the record class _Model with its write  *)
(* policy and its save/remove helpers, and the result codec load /         *)
(* FetchResult.                                                            *)
(*                                                                         *)
(* Python values are records tagged by their type in the field t, so that  *)
(* None, integers, mappings and lists can be compared with one another.    *)
(* Exceptions are named by strings; NoExc means that nothing was raised.   *)
(***************************************************************************)
EXTENDS Integers, Sequences, FiniteSets, Bags, TLC

VARIABLES decl, reg, cls, rec, last, pend

vars == <<decl, reg, cls, rec, last, pend>>

----------------------------------------------------------------------------
(* Bounds of the model *)

\* the largest number of attributes of a class body
MaxAttrs == 3
\* the largest key the driver generates
MaxKey == 1
\* the largest number of keyword arguments of a constructor call
MaxKwargs == 2
\* the largest number of fields of a registered model
MaxFields == 2
\* the depth at which the interpreter stops a recursion (sys.getrecursionlimit)
RecursionLimit == 4

----------------------------------------------------------------------------
(* Python values *)

None == [t |-> "None"]
PyInt(n) == [t |-> "int", v |-> n]
PyStr(s) == [t |-> "str", v |-> s]
NoExc == "none"

\* the last operation: its name, arguments, the exception it raised, what it
\* returned and the statements the driver executed for it
Done(op, key, arg, flag, exc, ret, io) ==
    [op |-> op, key |-> key, arg |-> arg, flag |-> flag, exc |-> exc, ret |-> ret,
     io |-> io]

NoOp == Done("none", "", None, FALSE, NoExc, None, <<>>)

\* bool(x): None, 0, the empty string and the empty containers are false
Truthy(x) ==
    CASE x.t = "None" -> FALSE
      [] x.t = "int" -> x.v # 0
      [] x.t = "str" -> x.v # ""
      [] x.t = "dict" -> DOMAIN x.items # {}
      [] x.t \in {"list", "tuple", "FetchResult"} -> Len(x.items) > 0
      [] OTHER -> TRUE

\* str.lower on the class names of the model
Lower(s) ==
    CASE s = "Person" -> "person"
      [] s = "Model" -> "model"
      [] s = "Name" -> "name"
      [] OTHER -> s

----------------------------------------------------------------------------
(* Class bodies: an ordered mapping, kept as a sequence of entries *)

Entry(k, v) == [key |-> k, val |-> v]

\* a field descriptor as declared: name "" is a name that was not given
Field(pk, ai, name) == [t |-> "Field", pk |-> pk, ai |-> ai, name |-> name]
Index(name) == [t |-> "Index", field |-> name]
PyTuple(items) == [t |-> "tuple", items |-> items]
Function == [t |-> "function"]

\* position of key in attrs, 0 when absent
RECURSIVE PosFrom(_, _, _)
PosFrom(attrs, key, i) ==
    IF i > Len(attrs) THEN 0
    ELSE IF attrs[i].key = key THEN i
    ELSE PosFrom(attrs, key, i + 1)

\* dict.pop(key, default): the value
PopValue(attrs, key, default) ==
    LET p == PosFrom(attrs, key, 1) IN IF p = 0 THEN default ELSE attrs[p].val

\* dict.pop(key, default): the mapping that is left
PopRest(attrs, key) ==
    LET p == PosFrom(attrs, key, 1)
    IN IF p = 0 THEN attrs
       ELSE [i \in 1..(Len(attrs) - 1) |-> IF i < p THEN attrs[i] ELSE attrs[i + 1]]

----------------------------------------------------------------------------
(* Schema registration: _ModelMeta.__new__ and _ModelMeta.__prepare__ *)

\* tables.Table.AIPK, the conventional name of an AUTO_INCREMENT key
TableAIPK == "id"

\* tables.Table.DEFAULT, the reserved names a class body may hold
TableDEFAULT == {"__module__", "__qualname__", "__indexes__", "__charset__", "__comment__"}

\* the classes __new__ builds without a table
BaseNames == {"_Model", "Model"}

\* utils.Tdict(auto=False, field=None, ai=None)
NoPk == [auto |-> FALSE, field |-> None, ai |-> None]

\* tables.Table(database, name, fields, pk, indexes, charset, comment)
Table(database, name, fields, pk, indexes, charset, comment) ==
    [t |-> "Table", database |-> database, name |-> name, fields |-> fields,
     pk |-> pk, indexes |-> indexes, charset |-> charset, comment |-> comment]

\* Table.fields_dict: the names of the declared fields
FieldsDict(table) == {table.fields[i].key : i \in DOMAIN table.fields}

\* the loop over attrs.copy(): order is the copy, attrs what is left to pop
RECURSIVE ScanAttrs(_, _, _, _, _, _)
ScanAttrs(order, i, attrs, pk, fields, warns) ==
    LET Raise(e) == [exc |-> e, attrs |-> attrs, pk |-> pk, fields |-> fields,
                     warns |-> warns]
    IN IF i > Len(order)
       THEN [exc |-> NoExc, attrs |-> attrs, pk |-> pk, fields |-> fields,
             warns |-> warns]
       ELSE LET attr == order[i].key
                field == PopValue(attrs, attr, None)
                rest == PopRest(attrs, attr)
            IN IF Truthy(pk.field) /\ attr = pk.field.name
               THEN Raise("DuplicateFieldNameError")
               ELSE IF field.t = "Field"
               THEN LET named == [field EXCEPT
                                    !.name = IF field.name # "" THEN field.name ELSE attr]
                        added == Append(fields, Entry(attr, named))
                    IN IF named.pk
                       THEN IF pk.field # None
                            THEN Raise("DuplicatePKError")
                            ELSE LET pk1 == [pk EXCEPT !.field = named]
                                     pk2 == IF named.ai
                                            THEN [pk1 EXCEPT !.auto = TRUE, !.ai = PyInt(1)]
                                            ELSE pk1
                                     w == IF named.ai /\ named.name # TableAIPK
                                          THEN warns \cup {"aipk_field_name"}
                                          ELSE warns
                                 IN ScanAttrs(order, i + 1, rest, pk2, added, w)
                       ELSE ScanAttrs(order, i + 1, rest, pk, added, warns)
               ELSE IF attr \notin TableDEFAULT
               THEN Raise("InvalidFieldType")
               ELSE ScanAttrs(order, i + 1, rest, pk, fields, warns)

\* the builtin isinstance takes two arguments; a call with another number of
\* arguments raises TypeError before any type is tested
IsinstanceCall(nargs) == IF nargs = 2 THEN NoExc ELSE "TypeError"

\* _ModelMeta.__prepare__(cls, name, attrs): what it raises, the table it puts
\* in attrs['__table__'], the table name it derived and the warnings it emitted
Prepare(name, attrs) ==
    LET bound == PopValue(attrs, "__db__", None)
        a1 == PopRest(attrs, "__db__")
        given == PopValue(a1, "__table__", None)
        a2 == PopRest(a1, "__table__")
        w0 == IF ~Truthy(given) THEN {"no_table_name"} ELSE {}
        table_name == Lower(name)
        scan == ScanAttrs(a2, 1, a2, NoPk, <<>>, w0)
        Out(e, tbl) == [exc |-> e, table |-> tbl, table_name |-> table_name,
                        warns |-> scan.warns]
    IN IF scan.exc # NoExc
       THEN Out(scan.exc, None)
       ELSE IF ~Truthy(scan.pk.field)
       THEN Out("NoPKError", None)
       ELSE LET indexes == PopValue(scan.attrs, "__indexes__", PyTuple(<<>>))
                a3 == PopRest(scan.attrs, "__indexes__")
            IN IF IsinstanceCall(1) # NoExc
               THEN Out(IsinstanceCall(1), None)
               ELSE IF \E i \in DOMAIN indexes.items : indexes.items[i].t # "Index"
               THEN Out("InvalidFieldType", None)
               ELSE Out(NoExc,
                        Table(bound, table_name, scan.fields, scan.pk, indexes.items,
                              PopValue(a3, "__charset__", None),
                              PopValue(a3, "__comment__", None)))

\* a call of __prepare__ looked up on the metaclass: it is a plain function
\* there, so nothing is bound to cls and the call needs all three arguments
CallPrepare(args) ==
    IF Len(args) = 3
    THEN Prepare(args[2], args[3])
    ELSE [exc |-> "TypeError", table |-> None, table_name |-> "", warns |-> {}]

\* _ModelMeta.__new__(cls, name, bases, attrs), which calls
\* cls.__prepare__(name, attrs)
MetaNew(name, attrs) ==
    IF name \in BaseNames
    THEN [exc |-> NoExc, table |-> None, table_name |-> "", warns |-> {}]
    ELSE CallPrepare(<<name, attrs>>)

----------------------------------------------------------------------------
(* The class bodies the registration is checked on *)

ClassNames == {"Person", "user", "Model"}
FieldKeys == {"id", "name", "uid"}
FieldVals ==
    {Field(FALSE, FALSE, n) : n \in {"", "id"}}
        \cup {Field(TRUE, ai, n) : ai \in BOOLEAN, n \in {"", "id"}}
IndexVals ==
    {PyTuple(<<>>), PyTuple(<<Index("name")>>), PyTuple(<<Index("ghost")>>),
     PyTuple(<<Index("name"), PyStr("name")>>)}
Entries ==
    {Entry(k, v) : k \in FieldKeys, v \in FieldVals}
        \cup {Entry("__indexes__", v) : v \in IndexVals}
        \cup {Entry("helper", Function), Entry("__table__", PyStr("people"))}
Bodies ==
    {s \in UNION {[1..n -> Entries] : n \in 0..MaxAttrs} :
        \A i, j \in DOMAIN s : i # j => s[i].key # s[j].key}

NoReg == [state |-> "declared", via |-> "", exc |-> NoExc, table |-> None,
          table_name |-> "", warns |-> {}]
NoDecl == [name |-> "", attrs |-> <<>>]

\* the metaclass is called on the class body: __new__ raises or returns the class
Register ==
    /\ reg.state = "declared"
    /\ decl # NoDecl
    /\ LET r == MetaNew(decl.name, decl.attrs)
       IN reg' = [state |-> "done", via |-> "new", exc |-> r.exc, table |-> r.table,
                  table_name |-> r.table_name, warns |-> r.warns]
    /\ UNCHANGED <<decl, cls, rec, last, pend>>

\* _ModelMeta.__prepare__(cls, name, attrs) is called with its three arguments
PrepareDirect ==
    /\ reg.state = "declared"
    /\ decl # NoDecl
    /\ LET r == CallPrepare(<<None, decl.name, decl.attrs>>)
       IN reg' = [state |-> "done", via |-> "prepare", exc |-> r.exc,
                  table |-> r.table, table_name |-> r.table_name, warns |-> r.warns]
    /\ UNCHANGED <<decl, cls, rec, last, pend>>

InitReg ==
    /\ decl \in {[name |-> n, attrs |-> b] : n \in ClassNames, b \in Bodies}
    /\ reg = NoReg
    /\ cls = None
    /\ rec = None
    /\ last = NoOp
    /\ pend = EmptyBag

NextReg == Register \/ PrepareDirect

SpecReg == InitReg /\ [][NextReg]_vars

----------------------------------------------------------------------------
(* Records: _Model *)

PyDict(items) == [t |-> "dict", items |-> items]
PyList(items) == [t |-> "list", items |-> items]
FetchResult(items) == [t |-> "FetchResult", items |-> items]
Model(dict) == [t |-> "Model", dict |-> dict]
ExecResults(affected, last_id) ==
    [t |-> "ExecResults", affected |-> affected, last_id |-> last_id]

EmptyDict == <<>>
Put(d, key, value) == [k \in DOMAIN d \cup {key} |-> IF k = key THEN value ELSE d[k]]

\* _Model.__getattr__(self, key)
ModelGetattr(table, dict, key) ==
    IF key \in DOMAIN dict
    THEN [exc |-> NoExc, val |-> dict[key]]
    ELSE IF key = table.pk.field.name \/ key \in FieldsDict(table)
    THEN [exc |-> NoExc, val |-> None]
    ELSE [exc |-> "AttributeError", val |-> None]

\* the message of line 129 reads self.__class, which the compiler mangles to
\* self._Model__class: __getattr__ raises AttributeError for it, and when a
\* field of that name is declared the read of None.__name__ raises it
UnknownFieldMessage(table, dict) ==
    LET c == ModelGetattr(table, dict, "_Model__class")
    IN IF c.exc # NoExc THEN c.exc ELSE "AttributeError"

\* __setattr__ without the test of line 127: every name is stored
ModelSetattrUnchecked(table, dict, key, value, is_loader) ==
    IF table.pk.auto = TRUE /\ key = table.pk.field.name
    THEN [exc |-> "ModifyAutoPkError", dict |-> dict]
    ELSE [exc |-> NoExc, dict |-> Put(dict, key, value)]

\* _Model.__setattr__(self, key, value, is_loader): what it raises and the
\* __dict__ it leaves
ModelSetattr(table, dict, key, value, is_loader) ==
    IF table.pk.auto = TRUE /\ key = table.pk.field.name
    THEN [exc |-> "ModifyAutoPkError", dict |-> dict]
    ELSE IF ~is_loader /\ key \notin FieldsDict(table)
    THEN [exc |-> UnknownFieldMessage(table, dict), dict |-> dict]
    ELSE [exc |-> NoExc, dict |-> Put(dict, key, value)]

\* _Model.__init__(self, **kwargs): setattr for every keyword, in order
RECURSIVE InitFrom(_, _, _, _)
InitFrom(table, dict, kwargs, i) ==
    IF i > Len(kwargs)
    THEN [exc |-> NoExc, dict |-> dict]
    ELSE LET r == ModelSetattr(table, dict, kwargs[i].key, kwargs[i].val, FALSE)
         IN IF r.exc # NoExc THEN r ELSE InitFrom(table, r.dict, kwargs, i + 1)

ModelInit(table, kwargs) == InitFrom(table, EmptyDict, kwargs, 1)

\* _Model.__self__: the values of the declared fields that are not None (the
\* fields of the model carry no default producer)
RECURSIVE SelfFrom(_, _, _, _)
SelfFrom(table, dict, i, values) ==
    IF i > Len(table.fields)
    THEN values
    ELSE LET name == table.fields[i].val.name
             v == ModelGetattr(table, dict, name).val
         IN SelfFrom(table, dict, i + 1,
                     IF v # None THEN Put(values, name, v) ELSE values)

ModelSelf(table, dict) == SelfFrom(table, dict, 1, EmptyDict)

\* the statements handed to the driver
Replace(target, rows) == [t |-> "Replace", table |-> target, rows |-> rows]
Delete(target, field, value) ==
    [t |-> "Delete", table |-> target, where |-> [field |-> field, eq |-> value]]

\* a call that waits for the driver: the statement the driver holds and, for
\* _remove, the key the call read; pend is the bag of the waiting calls
Pending(op, pk, io) == [t |-> "pending", op |-> op, pk |-> pk, io |-> io]

\* the tasks that call _save and _remove on the record; a task that waits for
\* the driver makes no other call, and which task a call belongs to changes
\* nothing of what the call does
Tasks == {"A", "B"}
Idle(calls) == BagCardinality(calls) < Cardinality(Tasks)
Suspended(calls, call) == calls (+) SetToBag({call})
Resumed(calls, call) == calls (-) SetToBag({call})

\* _Model._save(self) up to the await of line 266: the snapshot is taken and
\* the Replace is handed to the driver
ModelSaveCall(table, dict) ==
    LET rows == <<ModelSelf(table, dict)>>
    IN <<Replace(table.name, rows)>>

\* _Model._save(self) from the await on: result is what the driver returned,
\* dict the __dict__ of the record at that moment
ModelSaveResume(table, dict, result) ==
    LET w == ModelSetattr(table, dict, table.name, result.last_id, FALSE)
    IN [exc |-> w.exc, dict |-> w.dict,
        ret |-> IF w.exc = NoExc THEN result ELSE None]

\* _Model._remove(self) up to the await of line 277: the key is read, and the
\* call raises or hands the Delete to the driver
ModelRemoveCall(table, dict) ==
    LET pk == ModelGetattr(table, dict, table.pk.field.name).val
    IN IF ~Truthy(pk)
       THEN [exc |-> "RuntimeError", pk |-> pk, io |-> <<>>]
       ELSE [exc |-> NoExc, pk |-> pk,
             io |-> <<Delete(table.name, table.pk.field.name, pk)>>]

\* _Model._remove(self) from the await on: the driver's result is returned
ModelRemoveResume(result) == [exc |-> NoExc, ret |-> result]

\* what a finished _remove is remembered by: the key it read and the result
\* the driver gave it
RemoveArgs(pk, result) == [t |-> "remove", pk |-> pk, result |-> result]

----------------------------------------------------------------------------
(* The result codec: load, _empty, _load_to_model, FetchResult *)

\* utils.formattdict(results): the result as generic mappings
Formattdict(results) == results

\* model.set_value(key, value, is_loader=True): _Model defines no set_value, so
\* the lookup goes to __getattr__; a field of that name reads as None, and the
\* call of None raises TypeError
SetValue(table, dict, key, value) ==
    LET m == ModelGetattr(table, dict, "set_value")
    IN [exc |-> IF m.exc # NoExc THEN m.exc ELSE "TypeError", dict |-> dict]

\* _do(results, model) of _load_to_model: row is a mapping, given as entries
RECURSIVE DoFrom(_, _, _, _)
DoFrom(table, dict, row, i) ==
    IF i > Len(row)
    THEN [exc |-> NoExc, ret |-> Model(dict)]
    ELSE LET r == SetValue(table, dict, row[i].key, row[i].val)
         IN IF r.exc # NoExc
            THEN [exc |-> r.exc, ret |-> None]
            ELSE DoFrom(table, r.dict, row, i + 1)

Do(table, row) == DoFrom(table, ModelInit(table, <<>>).dict, row.items, 1)

\* _load_to_model(results, model)
LoadToModel(table, results) ==
    IF results.t = "dict"
    THEN Do(table, results)
    ELSE IF results.t \in {"list", "tuple"}
    THEN LET rows == [i \in DOMAIN results.items |-> Do(table, results.items[i])]
         IN IF \E i \in DOMAIN rows : rows[i].exc # NoExc
            THEN [exc |-> rows[CHOOSE i \in DOMAIN rows :
                                 /\ rows[i].exc # NoExc
                                 /\ \A j \in 1..(i - 1) : rows[j].exc = NoExc].exc,
                  ret |-> None]
            ELSE [exc |-> NoExc,
                  ret |-> FetchResult([i \in DOMAIN rows |-> rows[i].ret])]
    ELSE [exc |-> "ValueError", ret |-> None]

\* _empty(results, model, use_tdict)
Empty(table, results, use_tdict) ==
    IF results.t = "dict"
    THEN IF use_tdict
         THEN [exc |-> NoExc, ret |-> PyDict(<<>>)]
         ELSE LET m == ModelInit(table, <<>>)
              IN [exc |-> m.exc, ret |-> Model(m.dict)]
    ELSE IF results.t \in {"list", "tuple"}
    THEN IF use_tdict
         THEN [exc |-> NoExc, ret |-> PyList(<<PyDict(<<>>)>>)]
         ELSE [exc |-> NoExc, ret |-> FetchResult(<<>>)]
    ELSE [exc |-> "ValueError", ret |-> None]

\* load(results, model, use_tdict)
Load(table, results, use_tdict) ==
    IF ~Truthy(results)
    THEN Empty(table, results, use_tdict)
    ELSE IF use_tdict
    THEN [exc |-> NoExc, ret |-> Formattdict(results)]
    ELSE LoadToModel(table, results)

\* FetchResult.__iter__(self): the body is pass
FetchResultIter(self) == None

\* the characters of a string, for the strings the results hold
Chars(s) ==
    CASE s = "" -> <<>>
      [] s = "row" -> <<"r", "o", "w">>
      [] s = "id" -> <<"i", "d">>
      [] s = "name" -> <<"n", "a", "m", "e">>

\* iter(x) as a for statement calls it: the items of a list or tuple, the
\* keys of a mapping, the characters of a string, TypeError when __iter__
\* returns something that is no iterator or the value has no __iter__
Iter(x) ==
    IF x.t = "FetchResult"
    THEN IF FetchResultIter(x) = None
         THEN [exc |-> "TypeError", yields |-> <<>>]
         ELSE [exc |-> NoExc, yields |-> x.items]
    ELSE IF x.t \in {"list", "tuple"}
    THEN [exc |-> NoExc, yields |-> x.items]
    ELSE IF x.t = "dict"
    THEN [exc |-> NoExc,
          yields |-> [i \in DOMAIN x.items |-> PyStr(x.items[i].key)]]
    ELSE IF x.t = "str"
    THEN [exc |-> NoExc,
          yields |-> [i \in DOMAIN Chars(x.v) |-> PyStr(Chars(x.v)[i])]]
    ELSE [exc |-> "TypeError", yields |-> <<>>]

----------------------------------------------------------------------------
(* The class of a registered model: _ModelMeta.__setattr__ and __getattr__ *)

Class(name, table) == [t |-> "class", name |-> name, table |-> table]

\* what the normal lookup finds on a model class
NormalAttrs == {"__table__", "__name__", "_save", "_remove"}

\* __setattr__ as type defines it: the attribute is assigned
MetaSetattrAssigns(c, key, value) ==
    [exc |-> NoExc,
     cls |-> IF key = "__table__" /\ value.t = "Table"
             THEN [c EXCEPT !.table = value]
             ELSE c]

\* _ModelMeta.__setattr__(cls, _key, _value): what it raises, the class it leaves
MetaSetattr(c, key, value) == [exc |-> "ModelSetAttrError", cls |-> c]

\* getattr(cls, key): the normal lookup and, when it finds nothing, the
\* metaclass's __getattr__, one frame deeper; _ModelMeta.__getattr__(cls, key)
\* calls it again
RECURSIVE Getattr(_, _, _)
RECURSIVE MetaGetattr(_, _, _)
Getattr(c, key, depth) ==
    IF key = "__table__" THEN [exc |-> NoExc, val |-> c.table]
    ELSE IF key = "__name__" THEN [exc |-> NoExc, val |-> PyStr(c.name)]
    ELSE IF key \in NormalAttrs THEN [exc |-> NoExc, val |-> Function]
    ELSE MetaGetattr(c, key, depth + 1)

MetaGetattr(c, key, depth) ==
    IF depth > RecursionLimit
    THEN [exc |-> "RecursionError", val |-> None]
    ELSE LET got == Getattr(c, key, depth)
         IN IF got.exc = "AttributeError"
            THEN IF key \in FieldsDict(c.table)
                 THEN [exc |-> NoExc,
                       val |-> PopValue(c.table.fields, key, None)]
                 ELSE [exc |-> "AttributeError", val |-> None]
            ELSE got

----------------------------------------------------------------------------
(* The registered models, records and driver results the operations run on *)

ModelNames == {"Person", "Name"}
ModelFieldKeys == {"id", "name"}

\* class bodies of fields declared without a name, exactly one of them the
\* key, id declared before name (the operations on a record do not depend on
\* the order of the fields)
ModelBodies ==
    {s \in UNION {[1..n -> {Entry(k, v) : k \in ModelFieldKeys,
                                          v \in {Field(FALSE, FALSE, ""),
                                                 Field(TRUE, FALSE, ""),
                                                 Field(TRUE, TRUE, "")}}] :
                  n \in 1..MaxFields} :
        /\ \A i, j \in DOMAIN s : i < j => (s[i].key = "id" /\ s[j].key = "name")
        /\ Cardinality({i \in DOMAIN s : s[i].val.pk}) = 1}

\* the table lines 68-73 build from what the scan of the body collected; the
\* TypeErrors of lines 14 and 62 keep the registration itself from reaching
\* these lines (NoTableEver), so the records below are bound to the tables it
\* would attach
TableOf(name, body) ==
    LET scan == ScanAttrs(body, 1, body, NoPk, <<>>, {})
    IN Table(None, Lower(name), scan.fields, scan.pk, <<>>, None, None)

Values == {None, PyInt(0), PyInt(1)}
\* the values the loader writes: those of a row the driver returned
LoaderValues == {PyInt(1)}
WriteKeys(table) == FieldsDict(table) \cup {"ghost"}

Kwargs(table) ==
    {s \in UNION {[1..n -> {Entry(k, v) : k \in WriteKeys(table), v \in Values}] :
                  n \in 0..MaxKwargs} :
        \A i, j \in DOMAIN s : i # j => s[i].key # s[j].key}

\* what the driver may return for a statement
Outcomes == {ExecResults(1, id) : id \in {None} \cup {PyInt(n) : n \in 1..MaxKey}}

Rows ==
    {PyDict(<<>>), PyDict(<<Entry("id", PyInt(1))>>),
     PyDict(<<Entry("id", PyInt(1)), Entry("name", PyInt(0))>>)}
Results ==
    {None, PyList(<<>>), PyTuple(<<>>), PyStr("row")} \cup Rows
        \cup {PyList(<<r>>) : r \in Rows}

\* Model(**kwargs): a run follows one record, which is constructed first
New ==
    /\ cls # None /\ rec = None /\ last = NoOp
    /\ \E kwargs \in Kwargs(cls.table) :
          LET r == ModelInit(cls.table, kwargs)
          IN /\ rec' = IF r.exc = NoExc THEN Model(r.dict) ELSE None
             /\ last' = Done("init", "", PyDict(kwargs), FALSE, r.exc, None, <<>>)
    /\ UNCHANGED <<decl, reg, cls, pend>>

\* record.key = value, and record.__setattr__(key, value, is_loader=True)
SetAttr(key, value, is_loader) ==
    /\ cls # None /\ rec # None
    /\ LET r == ModelSetattr(cls.table, rec.dict, key, value, is_loader)
       IN /\ rec' = Model(r.dict)
          /\ last' = Done("setattr", key, value, is_loader, r.exc, None, <<>>)
    /\ UNCHANGED <<decl, reg, cls, pend>>

\* an idle task calls record._save() and runs it to the await of line 266,
\* whether or not calls of other tasks wait
SaveCall ==
    /\ cls # None /\ rec # None /\ Idle(pend)
    /\ pend' = Suspended(pend, Pending("save", None,
                                       ModelSaveCall(cls.table, rec.dict)))
    /\ UNCHANGED <<decl, reg, cls, rec, last>>

\* the driver returns result to a waiting _save, and its task goes on from
\* line 266 to the end
SaveReturn(call, result) ==
    /\ cls # None /\ rec # None /\ BagIn(call, pend) /\ call.op = "save"
    /\ LET r == ModelSaveResume(cls.table, rec.dict, result)
       IN /\ rec' = Model(r.dict)
          /\ last' = Done("save", "", result, FALSE, r.exc, r.ret, call.io)
    /\ pend' = Resumed(pend, call)
    /\ UNCHANGED <<decl, reg, cls>>

\* a task calls record._remove() and runs it to the await of line 277, or to
\* the raise of line 275, whether or not calls of other tasks wait
RemoveCall ==
    /\ cls # None /\ rec # None /\ Idle(pend)
    /\ LET r == ModelRemoveCall(cls.table, rec.dict)
       IN IF r.exc # NoExc
          THEN /\ last' = Done("remove", "", RemoveArgs(r.pk, None), FALSE, r.exc,
                               None, r.io)
               /\ pend' = pend
          ELSE /\ pend' = Suspended(pend, Pending("remove", r.pk, r.io))
               /\ last' = last
    /\ UNCHANGED <<decl, reg, cls, rec>>

\* the driver returns result to a waiting _remove, which returns it
RemoveReturn(call, result) ==
    /\ cls # None /\ rec # None /\ BagIn(call, pend) /\ call.op = "remove"
    /\ LET r == ModelRemoveResume(result)
       IN last' = Done("remove", "", RemoveArgs(call.pk, result), FALSE, r.exc,
                       r.ret, call.io)
    /\ pend' = Resumed(pend, call)
    /\ UNCHANGED <<decl, reg, cls, rec>>

\* load(results, cls, use_tdict)
LoadResult(results, use_tdict) ==
    /\ cls # None
    /\ LET r == Load(cls.table, results, use_tdict)
       IN last' = Done("load", "", results, use_tdict, r.exc, r.ret, <<>>)
    /\ UNCHANGED <<decl, reg, cls, rec, pend>>

\* for x in <what load returned>
Iterate ==
    /\ last # None /\ last.op = "load" /\ last.exc = NoExc
    /\ LET r == Iter(last.ret)
       IN last' = Done("iter", "", last.ret, FALSE, r.exc, PyList(r.yields), <<>>)
    /\ UNCHANGED <<decl, reg, cls, rec, pend>>

\* cls.key = value
ClassSetAttr(key, value) ==
    /\ cls # None
    /\ LET r == MetaSetattr(cls, key, value)
       IN /\ cls' = r.cls
          /\ last' = Done("cls_setattr", key, value, FALSE, r.exc, None, <<>>)
    /\ UNCHANGED <<decl, reg, rec, pend>>

\* cls.key
ClassGetAttr(key) ==
    /\ cls # None
    /\ LET r == Getattr(cls, key, 0)
       IN last' = Done("cls_getattr", key, None, FALSE, r.exc, r.val, <<>>)
    /\ UNCHANGED <<decl, reg, cls, rec, pend>>

\* the values a class attribute may be assigned
ClassValues == {None, TableOf("Person", <<Entry("id", Field(TRUE, FALSE, ""))>>)}

Init ==
    /\ decl = NoDecl
    /\ reg = NoReg
    /\ cls \in {Class(n, TableOf(n, b)) : n \in ModelNames, b \in ModelBodies}
    /\ rec = None
    /\ last = NoOp
    /\ pend = EmptyBag

Next ==
    \/ New
    \/ \E key \in WriteKeys(cls.table), value \in Values : SetAttr(key, value, FALSE)
    \/ \E key \in WriteKeys(cls.table), value \in LoaderValues :
          SetAttr(key, value, TRUE)
    \/ SaveCall
    \/ \E call \in BagToSet(pend), result \in Outcomes : SaveReturn(call, result)
    \/ RemoveCall
    \/ \E call \in BagToSet(pend), result \in Outcomes : RemoveReturn(call, result)

\* the operations on the class; they read and write cls alone, which no
\* operation on a record changes
NextClass ==
    \/ New
    \/ \E value \in ClassValues : ClassSetAttr("__table__", value)
    \/ \E key \in {"id", "__table__", "ghost"} : ClassGetAttr(key)

NextLoad ==
    \/ \E results \in Results, use_tdict \in BOOLEAN : LoadResult(results, use_tdict)
    \/ Iterate

Spec == Init /\ [][Next]_vars

SpecClass == Init /\ [][NextClass]_vars

SpecLoad == Init /\ [][NextLoad]_vars

----------------------------------------------------------------------------
(* Properties of the registration, checked under SpecReg *)

\* the registration of a class that is to get a Table has run, through
\* __new__ or through __prepare__ alone
Registered ==
    reg.state = "done" /\ (reg.via = "prepare" \/ decl.name \notin BaseNames)

Prepared == reg.state = "done" /\ reg.via = "prepare"

\* the positions of the fields marked primary key
PkMarked(attrs) ==
    {i \in DOMAIN attrs : attrs[i].val.t = "Field" /\ attrs[i].val.pk}

\* every attribute is a field declared without a name of its own, or reserved
PlainBody(attrs) ==
    \A i \in DOMAIN attrs :
        \/ attrs[i].val.t = "Field" /\ attrs[i].val.name = ""
        \/ attrs[i].key \in TableDEFAULT \cup {"__table__", "__db__"}

DeclaredFieldNames(attrs) ==
    {attrs[i].key : i \in {j \in DOMAIN attrs : attrs[j].val.t = "Field"}}

\* C1: the registration of a body of fields and reserved names attaches a
\* Table whose primary key is the one field marked so, fails with
\* DuplicatePKError when two or more fields are marked, and fails with
\* NoPKError when none is; a failure attaches no Table.
C1_OnePrimaryKey ==
    (Registered /\ PlainBody(decl.attrs)) =>
        LET marked == PkMarked(decl.attrs)
            n == Cardinality(marked)
        IN /\ n = 1 =>
                /\ reg.exc = NoExc
                /\ reg.table # None
                /\ \A i \in marked :
                      /\ reg.table.pk.field.name = decl.attrs[i].key
                      /\ reg.table.pk.field.ai = decl.attrs[i].val.ai
           /\ n >= 2 => reg.exc = "DuplicatePKError" /\ reg.table = None
           /\ n = 0 => reg.exc = "NoPKError" /\ reg.table = None

\* the failing halves of C1, which the body of __prepare__ does keep
DuplicateAndMissingKeyFail ==
    (Prepared /\ PlainBody(decl.attrs)) =>
        LET n == Cardinality(PkMarked(decl.attrs))
        IN /\ n >= 2 => reg.exc = "DuplicatePKError" /\ reg.table = None
           /\ n = 0 => reg.exc = "NoPKError" /\ reg.table = None

\* no registration attaches a Table
NoTableEver == Registered => reg.exc # NoExc /\ reg.table = None

\* C6: the table name __prepare__ derives for the Table is the declared
\* __table__ when one is given and the lower-cased class name otherwise, and
\* the warning about a missing table name is emitted exactly when none is given.
C6_TableName ==
    Prepared =>
        LET given == PopValue(decl.attrs, "__table__", None)
        IN /\ reg.table_name = IF Truthy(given) THEN given.v ELSE Lower(decl.name)
           /\ ("no_table_name" \in reg.warns) <=> ~Truthy(given)

\* the warning half of C6, which the body of __prepare__ does keep
WarningIffNoName ==
    Prepared =>
        (("no_table_name" \in reg.warns)
            <=> ~Truthy(PopValue(decl.attrs, "__table__", None)))

\* C10: once the primary-key check of __prepare__ has passed, an index that names no declared
\* field makes the registration fail with InvalidFieldType and attach no Table;
\* otherwise nothing is raised and the Table holds the declared indexes in order.
C10_IndexValidation ==
    (Prepared /\ PlainBody(decl.attrs) /\ Cardinality(PkMarked(decl.attrs)) = 1) =>
        LET declared == PopValue(decl.attrs, "__indexes__", PyTuple(<<>>)).items
            known == DeclaredFieldNames(decl.attrs)
        IN IF \E i \in DOMAIN declared :
                 declared[i].t # "Index" \/ declared[i].field \notin known
           THEN reg.exc = "InvalidFieldType" /\ reg.table = None
           ELSE reg.exc = NoExc /\ reg.table # None /\ reg.table.indexes = declared

----------------------------------------------------------------------------
(* Properties of records and of the model class, checked under Spec *)

Declared == FieldsDict(cls.table)
PkName == cls.table.pk.field.name
Stored(r) == IF r = None THEN {} ELSE DOMAIN r.dict

\* C2: every assignment to an attribute of a registered model class raises
\* ModelSetAttrError, and no step changes the class's Table.
C2_SchemaFrozen ==
    [][/\ cls' = cls
       /\ last'.op = "cls_setattr" => last'.exc = "ModelSetAttrError"]_vars

C2_Witness ==
    /\ last.op = "cls_setattr" /\ last.key = "__table__" /\ last.arg # None
    /\ last.exc = "ModelSetAttrError"
    /\ Stored(rec) # {}

\* C3: with an AUTO_INCREMENT primary key, a public write to the key (an
\* assignment or a constructor keyword) raises ModifyAutoPkError and leaves the
\* record as it was, and a write with is_loader=True stores the value.
C3_AutoKeyWrites ==
    [][/\ (last'.op = "setattr" /\ cls.table.pk.auto /\ last'.key = PkName) =>
             IF last'.flag
             THEN /\ last'.exc = NoExc
                  /\ PkName \in Stored(rec')
                  /\ rec'.dict[PkName] = last'.arg
             ELSE last'.exc = "ModifyAutoPkError" /\ rec' = rec
       /\ (/\ last'.op = "init" /\ cls.table.pk.auto
           /\ Len(last'.arg.items) > 0
           /\ last'.arg.items[1].key = PkName) =>
             last'.exc = "ModifyAutoPkError" /\ rec' = None]_vars

\* the public half of C3, which the code does keep
PublicAutoKeyWriteFails ==
    [][(last'.op = "setattr" /\ cls.table.pk.auto /\ last'.key = PkName
            /\ ~last'.flag) =>
          last'.exc = "ModifyAutoPkError" /\ rec' = rec]_vars

\* C4: a public write to a name that is no declared field raises
\* AttributeError and leaves the record as it was; a public write to a declared
\* field that is not the primary key stores the value and nothing else; a
\* constructor stores its keywords when all are such fields and builds no
\* record when one is undeclared; so no public write adds an undeclared name.
C4_PublicWrites ==
    [][/\ (last'.op = "setattr" /\ ~last'.flag) =>
             /\ last'.key \notin Declared =>
                   last'.exc = "AttributeError" /\ rec' = rec
             /\ (last'.key \in Declared /\ last'.key # PkName) =>
                   /\ last'.exc = NoExc
                   /\ Stored(rec') = Stored(rec) \cup {last'.key}
                   /\ rec'.dict[last'.key] = last'.arg
                   /\ \A k \in Stored(rec) \ {last'.key} : rec'.dict[k] = rec.dict[k]
       /\ last'.op = "init" =>
             LET kw == last'.arg.items
                 keys == {kw[i].key : i \in DOMAIN kw}
             IN /\ (keys \subseteq Declared \ {PkName}) =>
                      /\ last'.exc = NoExc
                      /\ Stored(rec') = keys
                      /\ \A i \in DOMAIN kw : rec'.dict[kw[i].key] = kw[i].val
                /\ (~(keys \subseteq Declared) /\ PkName \notin keys) =>
                      last'.exc = "AttributeError" /\ rec' = None
       /\ ~(last'.op = "setattr" /\ last'.flag) =>
             (Stored(rec) \subseteq Declared => Stored(rec') \subseteq Declared)]_vars

C4_Witness ==
    /\ last.op = "setattr" /\ ~last.flag /\ last.key \notin Declared
    /\ last.exc = "AttributeError"
    /\ Stored(rec) # {} /\ Stored(rec) \subseteq Declared

\* C7: _remove raises RuntimeError and hands nothing to the driver when the
\* primary-key value it reads is unset, and for every set value, 0 included,
\* hands the driver one Delete filtered by equality on that value and returns
\* the driver's result.
C7_Remove ==
    /\ last.op = "remove" =>
          IF last.arg.pk = None
          THEN last.exc = "RuntimeError" /\ last.io = <<>>
          ELSE /\ last.exc = NoExc
               /\ last.io = <<Delete(cls.table.name, PkName, last.arg.pk)>>
               /\ last.ret = last.arg.result
    /\ \A call \in BagToSet(pend) :
          call.op = "remove" =>
              call.io = <<Delete(cls.table.name, PkName, call.pk)>>

\* the halves of C7 the code does keep: unset fails, a non-zero value deletes
RemoveUnsetOrNonZero ==
    last.op = "remove" =>
        /\ last.arg.pk = None => last.exc = "RuntimeError" /\ last.io = <<>>
        /\ (last.arg.pk # None /\ last.arg.pk # PyInt(0)) =>
              /\ last.exc = NoExc
              /\ last.io = <<Delete(cls.table.name, PkName, last.arg.pk)>>
              /\ last.ret = last.arg.result

\* the key _remove read is the key of the record at the call, not at the
\* return: a write made while the call waits for the driver is not seen
RemoveCallReadsKey ==
    [][\A call \in BagToSet(pend') :
          (call.op = "remove" /\ CopiesIn(call, pend') > CopiesIn(call, pend)) =>
              /\ PkName \in Stored(rec)
              /\ call.pk = rec.dict[PkName]]_vars

\* C8: when _save returns, it has handed the driver one Replace, written the
\* result's last_id into the primary-key field and returned the result, also
\* under an AUTO_INCREMENT key.
C8_Save ==
    last.op = "save" =>
        /\ last.exc = NoExc
        /\ last.ret = last.arg
        /\ Len(last.io) = 1 /\ last.io[1].t = "Replace"
        /\ PkName \in Stored(rec)
        /\ rec.dict[PkName] = last.arg.last_id

\* C9: the lookup on the class of a name that is no normal class attribute
\* returns the field descriptor of a declared field and raises AttributeError
\* for any other name.
C9_ClassLookup ==
    (last.op = "cls_getattr" /\ last.key \notin NormalAttrs) =>
        IF last.key \in Declared
        THEN last.exc = NoExc /\ last.ret = PopValue(cls.table.fields, last.key, None)
        ELSE last.exc = "AttributeError"

\* what the lookup does instead: it ends in RecursionError for every such name
ClassLookupRecurses ==
    (last.op = "cls_getattr" /\ last.key \notin NormalAttrs) =>
        last.exc = "RecursionError"

----------------------------------------------------------------------------
(* Properties of the result codec, checked under SpecLoad *)

EmptyInput(r) == r = None \/ (r.t \in {"dict", "list", "tuple"} /\ ~Truthy(r))

\* C5: load of an empty or absent mapping returns an empty mapping or an
\* unpopulated record, load of an empty sequence returns a list of one empty
\* mapping or an empty FetchResult, nothing is raised, and the empty
\* FetchResult iterates without error, yielding nothing.
C5_EmptyResultPolicy ==
    /\ (last.op = "load" /\ EmptyInput(last.arg)) =>
          /\ last.exc = NoExc
          /\ last.ret # None
          /\ last.arg.t \in {"None", "dict"} =>
                last.ret = IF last.flag THEN PyDict(<<>>) ELSE Model(EmptyDict)
          /\ last.arg.t \in {"list", "tuple"} =>
                last.ret = IF last.flag THEN PyList(<<PyDict(<<>>)>>)
                           ELSE FetchResult(<<>>)
    /\ (last.op = "iter" /\ last.arg = FetchResult(<<>>)) =>
          last.exc = NoExc /\ last.ret = PyList(<<>>)

\* the part of C5 the code does keep: what load returns for the empty mapping
\* and the empty sequences
EmptyContainersLoad ==
    (last.op = "load" /\ last.arg # None /\ EmptyInput(last.arg)) =>
        /\ last.exc = NoExc
        /\ last.arg.t = "dict" =>
              last.ret = IF last.flag THEN PyDict(<<>>) ELSE Model(EmptyDict)
        /\ last.arg.t \in {"list", "tuple"} =>
              last.ret = IF last.flag THEN PyList(<<PyDict(<<>>)>>)
                         ELSE FetchResult(<<>>)

====
